---- MODULE Spec2Model ----
(***************************************************************************)
(* A run of main() of the two report scripts of the repository:            *)
(*   script = "bar"  : src/code/scripts/draw_barplot.py                    *)
(*   script = "pie"  : src/code/scripts/process_and_plot.py                *)
(* The run scans a criterion result tree, accumulates point estimates per  *)
(* group and stage, writes timings_raw.csv and percentage_summary.csv and  *)
(* draws one chart.                                                        *)
(*                                                                         *)
(* Numbers.  Python floats are modelled by exact rationals <<n, d>> with   *)
(* d > 0, kept in lowest terms.  The point estimates of the model are      *)
(* multiples of 1/8 ns, which binary floating point represents exactly, so *)
(* sums of them are exact in the code as well; quotients (percentages) are *)
(* exact here and correctly rounded in the code.                           *)
(*                                                                         *)
(* Text.  Stage names and CSV column names are sequences of one-character  *)
(* strings, so that sorting, suffix tests and substring replacement are    *)
(* computed as Python computes them.  A group name is the sequence of its  *)
(* whitespace-separated words.                                             *)
(***************************************************************************)
EXTENDS Integers, Sequences, FiniteSets, TLC

\* The most measurement leaves (base directories holding benchmark.json)
\* an input tree has.
MaxLeaves == 3

----------------------------------------------------------------------------
(* Rational arithmetic *)

RECURSIVE GCD(_, _)
GCD(a, b) == IF b = 0 THEN a ELSE GCD(b, a % b)

Abs(n) == IF n < 0 THEN -n ELSE n

Norm(n, d) ==
  LET g == GCD(Abs(n), d) IN IF n = 0 THEN <<0, 1>> ELSE <<n \div g, d \div g>>

Zero == <<0, 1>>
QAdd(p, q) == Norm(p[1] * q[2] + q[1] * p[2], p[2] * q[2])
\* p / q for q > 0
QDiv(p, q) == Norm(p[1] * q[2], p[2] * q[1])
QTimes(p, k) == Norm(p[1] * k, p[2])
QOver(p, k) == Norm(p[1], p[2] * k)
QLess(p, q) == p[1] * q[2] < q[1] * p[2]
QLeq(p, q) == p[1] * q[2] <= q[1] * p[2]
QPos(p) == p[1] > 0

RECURSIVE QSumSeq(_)
QSumSeq(s) == IF s = <<>> THEN Zero ELSE QAdd(Head(s), QSumSeq(Tail(s)))

RECURSIVE QMinSeq(_)
QMinSeq(s) ==
  IF Len(s) = 1 THEN s[1]
  ELSE LET m == QMinSeq(Tail(s)) IN IF QLess(m, s[1]) THEN m ELSE s[1]

RECURSIVE QMaxSeq(_)
QMaxSeq(s) ==
  IF Len(s) = 1 THEN s[1]
  ELSE LET m == QMaxSeq(Tail(s)) IN IF QLess(s[1], m) THEN m ELSE s[1]

\* The integer k with k / 10^digits nearest to q >= 0, ties to the even k:
\* what round(x, digits) and the format spec .<digits>f do with an exactly
\* represented x.
RoundHalfEven(q, scale) ==
  LET n == q[1] * scale
      k == n \div q[2]
      r == n % q[2]
  IN  IF 2 * r < q[2] THEN k
      ELSE IF 2 * r > q[2] THEN k + 1
      ELSE IF k % 2 = 0 THEN k ELSE k + 1

\* round(x, 2): a float again
Round2(q) == Norm(RoundHalfEven(q, 100), 100)
\* f"{x:.2f}": the text is given by its count of hundredths
Fmt2(q) == RoundHalfEven(q, 100)
\* f"{x:.1f}": the text is given by its count of tenths
Fmt1(q) == RoundHalfEven(q, 10)

----------------------------------------------------------------------------
(* Text *)

\* Code points of the characters the names of the model are made of
Code(c) ==
  CASE c = "." -> 46 [] c = "1" -> 49 [] c = "_" -> 95 [] c = "a" -> 97
    [] c = "b" -> 98 [] c = "e" -> 101 [] c = "i" -> 105 [] c = "l" -> 108
    [] c = "m" -> 109 [] c = "n" -> 110 [] c = "o" -> 111 [] c = "p" -> 112
    [] c = "r" -> 114 [] c = "s" -> 115 [] c = "t" -> 116

\* Python's str.__lt__: the first differing code point decides, a proper
\* prefix is smaller.
RECURSIVE StrLess(_, _)
StrLess(a, b) ==
  IF b = <<>> THEN FALSE
  ELSE IF a = <<>> THEN TRUE
  ELSE IF Code(Head(a)) # Code(Head(b)) THEN Code(Head(a)) < Code(Head(b))
  ELSE StrLess(Tail(a), Tail(b))

\* str.endswith
EndsWith(s, suf) ==
  /\ Len(s) >= Len(suf)
  /\ SubSeq(s, Len(s) - Len(suf) + 1, Len(s)) = suf

\* str.replace(pat, ''): every non-overlapping occurrence, left to right
RECURSIVE RemoveAll(_, _)
RemoveAll(s, pat) ==
  IF Len(s) < Len(pat) THEN s
  ELSE IF SubSeq(s, 1, Len(pat)) = pat
       THEN RemoveAll(SubSeq(s, Len(pat) + 1, Len(s)), pat)
       ELSE <<Head(s)>> \o RemoveAll(Tail(s), pat)

\* Insertion of x into an ascending list, before the first greater element
RECURSIVE InsertSorted(_, _)
InsertSorted(x, s) ==
  IF s = <<>> THEN <<x>>
  ELSE IF StrLess(x, Head(s)) THEN <<x>> \o s
  ELSE <<Head(s)>> \o InsertSorted(x, Tail(s))

\* sorted(list) on strings
RECURSIVE Sorted(_)
Sorted(s) == IF s = <<>> THEN <<>> ELSE InsertSorted(Head(s), Sorted(Tail(s)))

\* The lists that hold each element of the set S once: the orders in which
\* iterating a Python set can yield its elements.
RECURSIVE Orders(_)
Orders(S) ==
  IF S = {} THEN {<<>>}
  ELSE UNION {{<<x>> \o t : t \in Orders(S \ {x})} : x \in S}

Range(s) == {s[i] : i \in 1..Len(s)}

TimeSuffix == <<"_", "t", "i", "m", "e", "_", "n", "s">>
PairColumn == <<"p", "a", "i", "r">>
TotalColumn == <<"t", "o", "t", "a", "l">> \o TimeSuffix

----------------------------------------------------------------------------
(* The input: a result tree *)

\* Group directories under the root, by the words of their names.  The
\* labels the bar chart translates them to are distinct.
Groups == {<<"apple2", "lemon">>, <<"pear", "banana">>}

\* Names of the directories above a base directory
Stages == {<<"a", "b">>, <<"b">>, <<"t", "o", "t", "a", "l">>}

\* What reading a leaf's estimates.json gives:
\*   "error"   the file is missing, unreadable, not JSON, or "mean" is not
\*             an object: an exception before the value is added
\*   "absent"  mean.point_estimate is absent (or null)
\*   "text"    mean.point_estimate is present and not a number
\*   "num"     mean.point_estimate is the number val
Estimates ==
  {[kind |-> "error", val |-> Zero], [kind |-> "absent", val |-> Zero],
   [kind |-> "text", val |-> Zero]}
  \cup {[kind |-> "num", val |-> v] : v \in {Zero, <<1, 8>>, <<3, 8>>}}

Leaves == [group : Groups, stage : Stages, est : Estimates]

RECURSIVE UpTo(_, _)
UpTo(S, k) ==
  IF k = 0 THEN {{}}
  ELSE LET P == UpTo(S, k - 1) IN P \cup {p \cup {x} : p \in P, x \in S}

Trees == UpTo(Leaves, MaxLeaves)

----------------------------------------------------------------------------
(* State *)

VARIABLES
  script,            \* "bar": draw_barplot.py, "pie": process_and_plot.py
  rootIsDir,         \* os.path.isdir(criterion_root)
  tree,              \* the leaves under the root
  pc,                \* where main is
  todo,              \* group_dirs not yet visited
  cur,               \* group_name of the running iteration, or NoGroup
  pending,           \* leaves of cur that os.walk has not yet yielded
  stage_totals,      \* stage -> accumulated time, of cur
  all_groups_data,   \* list of [name, stages], in insertion order
  warnings,          \* number of warnings printed
  raw_data,          \* what collect_raw_data returned
  outdir,            \* whether this run has created the output directory
  all_stage_names,
  csv1,              \* timings_raw.csv
  stage_percentages, \* stage -> list of percentages
  csv2,              \* percentage_summary.csv
  summary_for_chart,
  chart

input == <<script, rootIsDir, tree>>
scan == <<todo, cur, pending, stage_totals, all_groups_data, warnings>>
reports == <<outdir, all_stage_names, csv1, stage_percentages, csv2,
             summary_for_chart>>
vars == <<input, pc, scan, raw_data, reports, chart>>

NoGroup == <<>>
None == "None"
Unset == "unset"
NoFile == [status |-> "none", header |-> <<>>, rows |-> <<>>]
NoChart == [status |-> "none"]

Init ==
  /\ script \in {"bar", "pie"}
  /\ rootIsDir \in BOOLEAN
  /\ tree \in IF rootIsDir THEN Trees ELSE {{}}
  /\ pc = "collect"
  /\ todo = {}
  /\ cur = NoGroup
  /\ pending = {}
  /\ stage_totals = <<>>
  /\ all_groups_data = <<>>
  /\ warnings = 0
  /\ raw_data = Unset
  /\ outdir = FALSE
  /\ all_stage_names = <<>>
  /\ csv1 = NoFile
  /\ stage_percentages = <<>>
  /\ csv2 = NoFile
  /\ summary_for_chart = <<>>
  /\ chart = NoChart

----------------------------------------------------------------------------
(* collect_raw_data *)

\* d.get(k, default)
Get(d, k, default) == IF k \in DOMAIN d THEN d[k] ELSE default

\* d[k] = v
Put(d, k, v) == [x \in DOMAIN d \cup {k} |-> IF x = k THEN v ELSE d[x]]

\* The body of the try block for one leaf: stage_totals afterwards.
\* stage_totals is a defaultdict(float): stage_totals[k] += v first reads
\* stage_totals[k], which inserts 0.0 for a missing k, and then adds; when
\* v is not a number the addition raises after the insertion.
AccumulateOverwrite(totals, stage, est) ==
  CASE est.kind = "num" -> Put(totals, stage, est.val)
    [] est.kind = "text" -> Put(totals, stage, Get(totals, stage, Zero))
    [] OTHER -> totals
Accumulate(totals, stage, est) ==
  CASE est.kind = "num" ->
         Put(totals, stage, QAdd(Get(totals, stage, Zero), est.val))
    [] est.kind = "text" -> Put(totals, stage, Get(totals, stage, Zero))
    [] OTHER -> totals

\* Whether the leaf ends in the except clause
Raises(est) == est.kind \in {"error", "text"}

\* The value collect_raw_data returns at its end
CollectResult(all) == IF all = <<>> THEN None ELSE all

\* Lines 26-30: the root check and the listing of the group directories
CollectStart ==
  /\ pc = "collect"
  /\ \/ /\ ~rootIsDir
        /\ raw_data' = None
        /\ pc' = "main"
        /\ UNCHANGED todo
     \/ /\ rootIsDir
        /\ todo' = Groups
        /\ pc' = "scan"
        /\ UNCHANGED raw_data
  /\ UNCHANGED <<input, cur, pending, stage_totals, all_groups_data, warnings,
                 reports, chart>>

\* The head of the loop over group_dirs, whose order is os.listdir's
NextGroup ==
  /\ pc = "scan"
  /\ cur = NoGroup
  /\ \E g \in todo :
       /\ cur' = g
       /\ todo' = todo \ {g}
       /\ pending' = {l \in tree : l.group = g}
  /\ stage_totals' = <<>>
  /\ UNCHANGED <<input, pc, all_groups_data, warnings, raw_data, reports,
                 chart>>

\* One leaf that os.walk yields, in whatever order it yields them
ScanLeaf ==
  /\ pc = "scan"
  /\ cur # NoGroup
  /\ \E l \in pending :
       /\ pending' = pending \ {l}
       /\ stage_totals' = Accumulate(stage_totals, l.stage, l.est)
       /\ warnings' = IF Raises(l.est) THEN warnings + 1 ELSE warnings
  /\ UNCHANGED <<input, pc, todo, cur, all_groups_data, raw_data, reports,
                 chart>>

\* After the walk of a group: the group is kept when stage_totals is not
\* empty
EndGroup ==
  /\ pc = "scan"
  /\ cur # NoGroup
  /\ pending = {}
  /\ all_groups_data' =
       IF DOMAIN stage_totals # {}
       THEN Append(all_groups_data, [name |-> cur, stages |-> stage_totals])
       ELSE all_groups_data
  /\ cur' = NoGroup
  /\ stage_totals' = <<>>
  /\ UNCHANGED <<input, pc, todo, pending, warnings, raw_data, reports, chart>>

\* Lines 51-56: the end of collect_raw_data
CollectReturn ==
  /\ pc = "scan"
  /\ cur = NoGroup
  /\ todo = {}
  /\ raw_data' = CollectResult(all_groups_data)
  /\ pc' = "main"
  /\ UNCHANGED <<input, scan, reports, chart>>

----------------------------------------------------------------------------
(* main, after the scan *)

\* `if not raw_data: return`: None and the empty dict are both falsy
MainStopsNever(raw) == FALSE
MainStops(raw) == raw = None \/ raw = <<>>

MainCheck ==
  /\ pc = "main"
  /\ pc' = IF MainStops(raw_data) THEN "done" ELSE "reports"
  /\ UNCHANGED <<input, scan, raw_data, reports, chart>>

----------------------------------------------------------------------------
(* generate_reports *)

\* sum(stages.values())
RECURSIVE SumValues(_)
SumValues(stages) ==
  IF DOMAIN stages = {} THEN Zero
  ELSE LET k == CHOOSE x \in DOMAIN stages : TRUE
       IN  QAdd(stages[k],
                SumValues([x \in DOMAIN stages \ {k} |-> stages[x]]))

\* set(stage for stages in all_data.values() for stage in stages.keys())
StageKeys(all) == UNION {DOMAIN all[i].stages : i \in 1..Len(all)}

\* sorted(list(set(...))) of one iteration order of the set
StageNamesUnsorted(order) == order
StageNames(order) == Sorted(order)

\* The header row of timings_raw.csv
RawHeader(names) ==
  <<PairColumn, TotalColumn>> \o [i \in 1..Len(names) |-> names[i] \o TimeSuffix]

\* One data row of timings_raw.csv.  process_and_plot.py rounds the total
\* and every cell to two decimals; draw_barplot.py writes them as they are.
RawRowNoLast(sc, g, names) ==
  LET shown(x) == IF sc = "pie" THEN Round2(x) ELSE x
      n == Len(names)
      part == [x \in DOMAIN g.stages \ {names[n]} |-> g.stages[x]]
  IN  [pair |-> g.name,
       total |-> shown(SumValues(part)),
       cells |-> [i \in 1..n |-> shown(Get(g.stages, names[i], Zero))]]
RawRow(sc, g, names) ==
  LET shown(x) == IF sc = "pie" THEN Round2(x) ELSE x
  IN  [pair |-> g.name,
       total |-> shown(SumValues(g.stages)),
       cells |-> [i \in 1..Len(names) |->
                    shown(Get(g.stages, names[i], Zero))]]

\* (stage_time / total_time) * 100
Percentage(v, total) == QTimes(QDiv(v, total), 100)

\* One iteration of the loop that fills stage_percentages
AddGroupZeroFilled(acc, g) ==
  LET total == SumValues(g.stages)
      known == DOMAIN acc \cup StageKeys(<<g>>) \cup Stages
  IN  IF QPos(total)
      THEN [s \in known |->
              Append(Get(acc, s, <<>>),
                     Percentage(Get(g.stages, s, Zero), total))]
      ELSE acc
AddGroup(acc, g) ==
  LET total == SumValues(g.stages)
  IN  IF QPos(total)
      THEN [s \in DOMAIN acc \cup DOMAIN g.stages |->
              IF s \in DOMAIN g.stages
              THEN Append(Get(acc, s, <<>>), Percentage(g.stages[s], total))
              ELSE acc[s]]
      ELSE acc

RECURSIVE AddGroups(_, _)
AddGroups(acc, all) ==
  IF all = <<>> THEN acc ELSE AddGroups(AddGroup(acc, Head(all)), Tail(all))

\* sum(percentages) / len(percentages)
AverageSum(ps) == QSumSeq(ps)
Average(ps) == QOver(QSumSeq(ps), Len(ps))

\* min, max and average of a stage's list, [0] standing in for no list
Stat(pcts, stage) ==
  LET ps == Get(pcts, stage, <<Zero>>)
  IN  [min |-> QMinSeq(ps), max |-> QMaxSeq(ps), avg |-> Average(ps)]

\* One data row of percentage_summary.csv
SummaryRow(pcts, stage) ==
  LET st == Stat(pcts, stage)
  IN  [stage |-> stage, min |-> Fmt2(st.min), max |-> Fmt2(st.max),
       avg |-> Fmt2(st.avg)]

\* Lines 63-64: os.makedirs, which the file system may refuse, and
\* all_stage_names; a raw_data of None has no values()
PrepareReports ==
  /\ pc = "reports"
  /\ \/ /\ outdir' = TRUE
        /\ IF raw_data = None
           THEN pc' = "crashed" /\ UNCHANGED all_stage_names
           ELSE /\ \E order \in Orders(StageKeys(raw_data)) :
                     all_stage_names' = StageNames(order)
                /\ pc' = "csv1"
     \/ /\ pc' = "crashed"
        /\ UNCHANGED <<outdir, all_stage_names>>
  /\ UNCHANGED <<input, scan, raw_data, csv1, stage_percentages, csv2,
                 summary_for_chart, chart>>

\* Lines 66-77: timings_raw.csv is written, or open/write raises
WriteRawCsv ==
  /\ pc = "csv1"
  /\ \/ /\ csv1' = [status |-> "written",
                     header |-> RawHeader(all_stage_names),
                     rows |-> [i \in 1..Len(raw_data) |->
                                 RawRow(script, raw_data[i], all_stage_names)]]
        /\ pc' = "percentages"
     \/ /\ csv1' = [csv1 EXCEPT !.status = "failed"]
        /\ pc' = "crashed"
  /\ UNCHANGED <<input, scan, raw_data, outdir, all_stage_names,
                 stage_percentages, csv2, summary_for_chart, chart>>

\* Lines 79-85
ComputePercentages ==
  /\ pc = "percentages"
  /\ stage_percentages' = AddGroups(<<>>, raw_data)
  /\ pc' = "csv2"
  /\ UNCHANGED <<input, scan, raw_data, outdir, all_stage_names, csv1, csv2,
                 summary_for_chart, chart>>

\* Lines 87-102: percentage_summary.csv is written, or open/write raises
WriteSummaryCsv ==
  /\ pc = "csv2"
  /\ \/ /\ csv2' = [status |-> "written",
                     header |-> <<"stage", "min_percentage", "max_percentage",
                                  "avg_percentage">>,
                     rows |-> [i \in 1..Len(all_stage_names) |->
                                 SummaryRow(stage_percentages,
                                            all_stage_names[i])]]
        /\ summary_for_chart' =
             [i \in 1..Len(all_stage_names) |->
                <<all_stage_names[i],
                  Stat(stage_percentages, all_stage_names[i]).avg>>]
        /\ pc' = "chart"
     \/ /\ csv2' = [csv2 EXCEPT !.status = "failed"]
        /\ pc' = "crashed"
        /\ UNCHANGED summary_for_chart
  /\ UNCHANGED <<input, scan, raw_data, outdir, all_stage_names, csv1,
                 stage_percentages, chart>>

----------------------------------------------------------------------------
(* create_percentage_stacked_bar_chart (draw_barplot.py) *)

\* len(hatches)
NumHatches == 4

\* Results of float division by zero in pandas: 0/0 and x/0
NaN == <<0, 0>>
Inf == <<1, 0>>
IsFinite(x) == x[2] # 0

\* Series / Series, element by element
FDiv(x, t) ==
  IF t[1] = 0 THEN (IF x[1] = 0 THEN NaN ELSE Inf) ELSE QDiv(x, t)
FTimes(x, k) == IF IsFinite(x) THEN QTimes(x, k) ELSE x
FAdd(x, y) ==
  IF IsFinite(x) /\ IsFinite(y) THEN QAdd(x, y)
  ELSE IF x = NaN \/ y = NaN THEN NaN ELSE Inf

\* The column names pandas.read_csv gives the header: a name that occurred
\* before gets ".1" appended (stage names are distinct, so a column name
\* occurs at most twice)
Mangle(header) ==
  [i \in 1..Len(header) |->
     IF \E j \in 1..(i - 1) : header[j] = header[i]
     THEN header[i] \o <<".", "1">>
     ELSE header[i]]

fruits_translation ==
  [w \in {"apple2", "lemon", "banana", "pear"} |->
     CASE w = "apple2" -> "Yabloko" [] w = "lemon" -> "Limon"
       [] w = "banana" -> "Banan" [] w = "pear" -> "Grusha"]

\* The words of the label " - ".join(fruits_translation[w] for w in
\* p.split() if w in fruits_translation)
RECURSIVE Translate(_)
Translate(words) ==
  IF words = <<>> THEN <<>>
  ELSE IF Head(words) \in DOMAIN fruits_translation
       THEN <<fruits_translation[Head(words)]>> \o Translate(Tail(words))
       ELSE Translate(Tail(words))

\* The data frame after read_csv and set_index('pair'): one record per
\* row, its values by column name
Frame(file) ==
  LET cols == Mangle(file.header)
      at(r, j) == IF j = 2 THEN r.total ELSE r.cells[j - 2]
  IN  [i \in 1..Len(file.rows) |->
         [label |-> Translate(file.rows[i].pair),
          val |-> [c \in {cols[j] : j \in 2..Len(cols)} |->
                     at(file.rows[i],
                        CHOOSE j \in 2..Len(cols) : cols[j] = c)]]]

\* col.endswith('_time_ns') and col != 'total_time_ns'
IsStageColumn(col) == EndsWith(col, TimeSuffix) /\ col # TotalColumn

\* stage_columns, from df.columns
StageColumns(file) == SelectSeq(Tail(Mangle(file.header)), IsStageColumn)

\* The row orders sort_values(by='total_time_ns', ascending=False) can give
SortedRows(df) ==
  {o \in Orders(1..Len(df)) :
     \A i \in 1..(Len(o) - 1) :
       QLeq(df[o[i + 1]].val[TotalColumn], df[o[i]].val[TotalColumn])}

\* bottom_values before layer i is drawn, for data frame row r
RECURSIVE Bottom(_, _, _)
Bottom(r, cols, i) ==
  IF i = 1 THEN Zero
  ELSE FAdd(Bottom(r, cols, i - 1),
            FTimes(FDiv(r.val[cols[i - 1]], r.val[TotalColumn]), 100))

\* The layers ax.bar draws, one per stage column, rows in the order o
Layers(df, cols, o) ==
  [i \in 1..Len(cols) |->
     [label |-> RemoveAll(cols[i], TimeSuffix),
      heights |-> [k \in 1..Len(o) |->
                     FTimes(FDiv(df[o[k]].val[cols[i]],
                                 df[o[k]].val[TotalColumn]), 100)],
      bottom |-> [k \in 1..Len(o) |-> Bottom(df[o[k]], cols, i)],
      color |-> i - 1,
      hatch |-> (i - 1) % NumHatches]]

\* The whole function: the chart is saved, or an exception inside the try
\* block (reading the CSV, drawing, saving) is caught and reported
BarChart ==
  /\ pc = "chart"
  /\ script = "bar"
  /\ \/ LET df == Frame(csv1)
            cols == StageColumns(csv1)
        IN  \E o \in SortedRows(df) :
              chart' = [status |-> "saved",
                        groups |-> [k \in 1..Len(o) |-> df[o[k]].label],
                        layers |-> Layers(df, cols, o),
                        bottom_values |->
                          [k \in 1..Len(o) |->
                             Bottom(df[o[k]], cols, Len(cols) + 1)],
                        notes |-> [k \in 1..Len(o) |->
                                     Fmt1(QOver(df[o[k]].val[TotalColumn],
                                                1000000))]]
     \/ chart' = [status |-> "failed"]
  /\ pc' = "done"
  /\ UNCHANGED <<input, scan, raw_data, reports>>

----------------------------------------------------------------------------
(* create_summary_pie_chart (process_and_plot.py) *)

\* The wedges ax.pie draws, or an exception, which nothing catches.  main
\* calls the function when summary_data is not empty, which it never is: a
\* group of the scan result has a stage.
PieChart ==
  /\ pc = "chart"
  /\ script = "pie"
  /\ summary_for_chart # <<>>
  /\ \/ /\ chart' = [status |-> "saved",
                      wedges |-> [i \in 1..Len(summary_for_chart) |->
                                    [label |-> summary_for_chart[i][1],
                                     size |-> summary_for_chart[i][2],
                                     color |-> i - 1,
                                     hatch |-> (i - 1) % NumHatches]]]
        /\ pc' = "done"
     \/ /\ chart' = [status |-> "failed"]
        /\ pc' = "crashed"
  /\ UNCHANGED <<input, scan, raw_data, reports>>

Next ==
  \/ CollectStart \/ NextGroup \/ ScanLeaf \/ EndGroup \/ CollectReturn
  \/ MainCheck
  \/ PrepareReports \/ WriteRawCsv \/ ComputePercentages \/ WriteSummaryCsv
  \/ BarChart \/ PieChart

Spec == Init /\ [][Next]_vars

----------------------------------------------------------------------------
(* What the properties below are stated with: the input tree read         *)
(* directly, without the accumulators of the scan                          *)

RECURSIVE LeafSum(_)
LeafSum(ls) ==
  IF ls = {} THEN Zero
  ELSE LET l == CHOOSE x \in ls : TRUE
       IN  QAdd(l.est.val, LeafSum(ls \ {l}))

\* The leaves of group g and stage s whose file was read and held a number
NumLeaves(g, s) ==
  {l \in tree : l.group = g /\ l.stage = s /\ l.est.kind = "num"}

\* The sum of the point estimates of group g over all its stages
GroupSum(g) == LeafSum({l \in tree : l.group = g /\ l.est.kind = "num"})

QAbsDiff(p, q) == IF QLess(p, q) THEN QAdd(q, <<-p[1], p[2]>>)
                  ELSE QAdd(p, <<-q[1], q[2]>>)

Hundred == <<100, 1>>
ScanOver == pc \notin {"collect", "scan"}
RawWritten == csv1.status = "written"
PositiveInput == \A l \in tree : l.est.kind = "num" /\ QPos(l.est.val)
PercentagesDone == pc \in {"csv2", "chart"} \/ csv2.status # "none"

----------------------------------------------------------------------------
(* C1 *)

\* C1, as stated: in every row of timings_raw.csv the written
\* total_time_ns equals the sum of the group's stage values and also the
\* sum of the per-stage cells written in the same row.
C1_TotalIsExactSum ==
  RawWritten =>
    \A i \in 1..Len(csv1.rows) :
      /\ csv1.rows[i].total = GroupSum(csv1.rows[i].pair)
      /\ csv1.rows[i].total = QSumSeq(csv1.rows[i].cells)

\* C1, amended: draw_barplot.py writes the sum of the group's stage values
\* as total_time_ns and the stage's value (0 for a stage the group lacks)
\* in each cell, so the total equals the sum of the cells of the row;
\* process_and_plot.py writes the total and each cell rounded to two
\* decimals, so the written total is within 0.005 of the sum of the
\* group's stage values and within 0.005 * (number of stage cells + 1) of
\* the sum of the cells of the row.
C1_TotalIsSumUpToRounding ==
  RawWritten =>
    /\ Len(csv1.rows) = Len(raw_data)
    /\ \A i \in 1..Len(csv1.rows) :
         LET r == csv1.rows[i]
             n == Len(r.cells)
         IN  /\ r.pair = raw_data[i].name
             /\ n = Len(all_stage_names)
             /\ script = "bar" =>
                  /\ r.total = GroupSum(r.pair)
                  /\ r.total = QSumSeq(r.cells)
                  /\ \A j \in 1..n :
                       r.cells[j] = LeafSum(NumLeaves(r.pair, all_stage_names[j]))
             /\ script = "pie" =>
                  /\ (r.total[1] * 100) % r.total[2] = 0
                  /\ QLeq(QAbsDiff(r.total, GroupSum(r.pair)), <<1, 200>>)
                  /\ QLeq(QAbsDiff(r.total, QSumSeq(r.cells)), <<n + 1, 200>>)
                  /\ \A j \in 1..n :
                       /\ (r.cells[j][1] * 100) % r.cells[j][2] = 0
                       /\ QLeq(QAbsDiff(r.cells[j],
                                        LeafSum(NumLeaves(r.pair,
                                                          all_stage_names[j]))),
                               <<1, 200>>)

\* A row of process_and_plot.py whose rounded total is neither the sum of
\* the stage values nor the sum of the rounded cells
C1_Witness ==
  /\ RawWritten
  /\ script = "pie"
  /\ \E i \in 1..Len(csv1.rows) :
       /\ csv1.rows[i].total # GroupSum(csv1.rows[i].pair)
       /\ csv1.rows[i].total # QSumSeq(csv1.rows[i].cells)

----------------------------------------------------------------------------
(* C2 *)

\* C2, as stated: in the stacked bar chart the cumulative bottom height of
\* every group row, after all stage layers have been drawn, equals 100;
\* here already for the trees all of whose leaves hold a positive number.
C2_StackIs100 ==
  (script = "bar" /\ chart.status = "saved" /\ PositiveInput) =>
    \A k \in 1..Len(chart.bottom_values) : chart.bottom_values[k] = Hundred

----------------------------------------------------------------------------
(* C3 *)

\* C3: every percentage appended to a stage's list lies in [0, 100], and
\* every row of percentage_summary.csv has 0 <= min <= avg <= max <= 100
\* (the written values, in hundredths).  All stage values of the model are
\* non-negative.
C3_PercentagesInRange ==
  /\ \A s \in DOMAIN stage_percentages :
       \A k \in 1..Len(stage_percentages[s]) :
         /\ QLeq(Zero, stage_percentages[s][k])
         /\ QLeq(stage_percentages[s][k], Hundred)
  /\ csv2.status = "written" =>
       /\ Len(csv2.rows) = Len(all_stage_names)
       /\ \A i \in 1..Len(csv2.rows) :
            /\ 0 <= csv2.rows[i].min
            /\ csv2.rows[i].min <= csv2.rows[i].avg
            /\ csv2.rows[i].avg <= csv2.rows[i].max
            /\ csv2.rows[i].max <= 10000

\* A written row with min < avg < max
C3_Witness ==
  /\ csv2.status = "written"
  /\ \E i \in 1..Len(csv2.rows) :
       /\ 0 < csv2.rows[i].min
       /\ csv2.rows[i].min < csv2.rows[i].avg
       /\ csv2.rows[i].avg < csv2.rows[i].max

----------------------------------------------------------------------------
(* C4 *)

\* The groups of the scan result that have a positive total and the key s,
\* in the order of the result
Contributors(s) ==
  LET has(g) == s \in DOMAIN g.stages /\ QPos(GroupSum(g.name))
  IN  SelectSeq(raw_data, has)

\* C4: the list of stage s holds exactly one entry 100 * value(g, s) /
\* total(g) for each group g with total(g) > 0 that has the key s, and
\* nothing else.
C4_OneEntryPerContributor ==
  PercentagesDone =>
    \A s \in Stages :
      LET gs == Contributors(s)
          list == IF s \in DOMAIN stage_percentages
                  THEN stage_percentages[s] ELSE <<>>
      IN  /\ Len(list) = Len(gs)
          /\ \A k \in 1..Len(gs) :
               LET v == LeafSum(NumLeaves(gs[k].name, s))
                   t == GroupSum(gs[k].name)
               IN  list[k] = Norm(100 * v[1] * t[2], v[2] * t[1])
          /\ s \in DOMAIN stage_percentages => list # <<>>

\* The example of the claim: a stage with the list [50, 100] and a stage
\* with the list [50], the second group lacking it
C4_Witness ==
  /\ pc = "csv2"
  /\ Len(raw_data) = 2
  /\ \E s, t \in DOMAIN stage_percentages :
       /\ stage_percentages[s] = <<<<50, 1>>, Hundred>>
       /\ stage_percentages[t] = <<<<50, 1>>>>
       /\ t \notin DOMAIN raw_data[2].stages

----------------------------------------------------------------------------
(* C5 *)

\* The stage names that are keys of some group of the scan result, read
\* from the tree: a leaf makes its stage a key when its estimate is added
\* or the addition is tried
KeysOfTree ==
  {l.stage : l \in {x \in tree : x.est.kind \in {"num", "text"}}}

\* C5: all_stage_names is the union of the stage keys of all groups,
\* strictly ascending (so without duplicates, and the same whatever order
\* the groups and the set were iterated in); the stage columns of
\* timings_raw.csv and the rows of percentage_summary.csv follow it.
C5_SortedUnion ==
  /\ pc \in {"csv1", "percentages", "csv2", "chart", "done"} /\ raw_data # None =>
       /\ Range(all_stage_names) = KeysOfTree
       /\ Range(all_stage_names) = StageKeys(raw_data)
       /\ \A i \in 1..(Len(all_stage_names) - 1) :
            StrLess(all_stage_names[i], all_stage_names[i + 1])
  /\ RawWritten =>
       /\ Len(csv1.header) = Len(all_stage_names) + 2
       /\ \A i \in 1..Len(all_stage_names) :
            csv1.header[i + 2] = all_stage_names[i] \o TimeSuffix
  /\ csv2.status = "written" =>
       /\ Len(csv2.rows) = Len(all_stage_names)
       /\ \A i \in 1..Len(all_stage_names) :
            csv2.rows[i].stage = all_stage_names[i]

\* Three stages, met by the scan in descending order of their names, in
\* both files
C5_Witness ==
  /\ RawWritten
  /\ csv2.status = "written"
  /\ Len(all_stage_names) = 3
  /\ Len(raw_data) = 2
  /\ \E s \in DOMAIN raw_data[1].stages, t \in DOMAIN raw_data[2].stages :
       StrLess(t, s)

----------------------------------------------------------------------------
(* C6 *)

----------------------------------------------------------------------------
(* C7 *)

\* The value accumulated for group g and stage s
Accumulated(g, s) ==
  IF g = cur /\ s \in DOMAIN stage_totals THEN stage_totals[s]
  ELSE IF \E i \in 1..Len(all_groups_data) :
            all_groups_data[i].name = g /\ s \in DOMAIN all_groups_data[i].stages
       THEN LET i == CHOOSE i \in 1..Len(all_groups_data) :
                       all_groups_data[i].name = g
            IN  all_groups_data[i].stages[s]
       ELSE Zero

\* The leaves the scan has visited
Visited ==
  {l \in tree : pc # "collect" /\ l.group \notin todo
                 /\ ~(l.group = cur /\ l \in pending)}

\* C7: at every point of the scan the value accumulated for a group and
\* stage is the sum of the point estimates of the visited leaves of that
\* group and stage that were read and held a number, whatever other leaves
\* were visited and in whatever order; a leaf that raises leaves a warning
\* and the scan goes on to visit every leaf.
C7_SumOfReadLeaves ==
  LET seen == Visited
  IN  /\ \A g \in Groups, s \in Stages :
           Accumulated(g, s) =
             LeafSum({l \in seen : l.group = g /\ l.stage = s
                                   /\ l.est.kind = "num"})
      /\ warnings = Cardinality({l \in seen : l.est.kind \in {"error", "text"}})
      /\ (rootIsDir /\ ScanOver) => seen = tree
      /\ \A i, j \in 1..Len(all_groups_data) :
           all_groups_data[i].name = all_groups_data[j].name => i = j

\* The scan has ended; one group and stage got two values and a leaf that
\* raised
C7_Witness ==
  /\ ScanOver
  /\ \E g \in Groups, s \in Stages :
       /\ Cardinality(NumLeaves(g, s)) = 2
       /\ \A l \in NumLeaves(g, s) : QPos(l.est.val)
       /\ \E l \in tree : l.group = g /\ l.stage = s /\ l.est.kind = "error"
       /\ Accumulated(g, s) = <<1, 2>>

----------------------------------------------------------------------------
(* C8 *)

\* C8, as stated: when the write of timings_raw.csv fails, the write of
\* percentage_summary.csv is still attempted before the run ends.
C8_SummaryAttemptedAfterRawFailure ==
  (csv1.status = "failed" /\ pc \in {"done", "crashed"}) =>
    csv2.status # "none"

----------------------------------------------------------------------------
(* C9 *)

\* C9, as stated: a group is a key of the scan result only if one of its
\* leaves was read and had its point estimate added.
C9_GroupsHaveAddedLeaf ==
  \A i \in 1..Len(all_groups_data) :
    \E l \in tree :
      l.group = all_groups_data[i].name /\ l.est.kind = "num"

----------------------------------------------------------------------------
(* C10 *)

\* C10, as stated: the layers drawn are one per stage of all_stage_names,
\* in that order, layer i (from 0) with color index i and hatch index
\* i mod 4, whatever the stage names are; here already for the trees all
\* of whose leaves hold a positive number.
C10_LayersAreStages ==
  (script = "bar" /\ chart.status = "saved" /\ PositiveInput) =>
    /\ Len(chart.layers) = Len(all_stage_names)
    /\ \A i \in 1..Len(chart.layers) :
         /\ chart.layers[i].label = all_stage_names[i]
         /\ chart.layers[i].color = i - 1
         /\ chart.layers[i].hatch = (i - 1) % 4
====
